---- MODULE Spec2Model ----
(***************************************************************************)
(* State machine of CodeReviewAgent (code-review-agent/src/agent.ts).      *)
(*                                                                         *)
(* One agent instance (one identity) is modelled: its in-memory/persisted  *)
(* AgentState snapshot (this.state), its two SQL relations                 *)
(* (review_patterns, code_snippets) and the reviewCode calls that are      *)
(* suspended on the inference capability (env.AI.run).                     *)
(*                                                                         *)
(* Granularity.  this.sql and this.setState are synchronous, so an `await` *)
(* on them only yields a microtask; the only await that lets another       *)
(* event of the same instance run is `await this.env.AI.run(...)`.         *)
(* reviewCode is therefore two atomic steps (up to the inference call, and *)
(* from the inference outcome to the return); every other operation is one *)
(* atomic step.                                                            *)
(*                                                                         *)
(* Text.  A review text is a sequence of tokens.  "Issue:" is one token,   *)
(* "." is the sentence terminator, every other token is a word that        *)
(* contains neither.  A pattern phrase is the sub-sequence a regex match   *)
(* returns.                                                                *)
(*                                                                         *)
(* Time and tokens.  Date.now() and CURRENT_TIMESTAMP read the logical     *)
(* clock `now`, which advances when a review is stored; one atomic step    *)
(* reads one clock value.  crypto.randomUUID() hands out 1, 2, 3, ... so   *)
(* a token also tells the order of issue; 0 is a token never issued.       *)
(***************************************************************************)
EXTENDS Integers, Sequences, FiniteSets, TLC

VARIABLES
    state,            \* this.state: the CodeReviewState snapshot
    review_patterns,  \* rows of table review_patterns, in insertion order
    code_snippets,    \* rows of table code_snippets, in insertion order
    calls,            \* per caller slot: the reviewCode call suspended on AI.run
    event,            \* the last call/return seen at the operation surface
    now,              \* Date.now() / CURRENT_TIMESTAMP
    uuidSeq,          \* crypto.randomUUID(): the next fresh token
    inferenceTexts,   \* number of inference calls answered with text so far
    used,             \* operations issued so far, per kind
    workload,         \* which input profile the run draws from
    conns,            \* per WebSocket connection: status, messages received,
                      \* messages sent, review handlers suspended on AI.run
    wire,             \* the last connection-level event (connect, message, ...)
    peer              \* the agent instance of a second identity

vars == <<state, review_patterns, code_snippets, calls, event, now, uuidSeq,
          inferenceTexts, used, workload, conns, wire, peer>>

(***************************************************************************)
(* Bounds of the model                                                     *)
(***************************************************************************)
MaxReviews == 2        \* reviewCode calls of a "review" run
ExtraReviews == 1      \* reviewCode calls beyond MaxHistory of a "long" run
MaxFeedback == 2       \* provideFeedback calls of a "feedback" run
MaxPrefUpdates == 2    \* updatePreferences calls of a "prefs" run
MaxMessages == 2       \* inbound messages of a "messages" run
MaxPeerOps == 2        \* operations on the second identity of a "tenants" run

(***************************************************************************)
(* Program constants                                                       *)
(***************************************************************************)
MaxHistory == 10
TopK == 5

\* An optional argument is a sequence of at most one value: None is the
\* JavaScript undefined, Some(x) a supplied x.
None == <<>>
Some(x) == <<x>>

Callers == {"rpc1", "rpc2"}

Connections == {"ws1", "ws2"}

Min(a, b) == IF a <= b THEN a ELSE b

(***************************************************************************)
(* Schema (onStart)                                                        *)
(***************************************************************************)
\* The columns of review_patterns that carry a PRIMARY KEY or UNIQUE
\* constraint: only id.
review_patterns_unique == {"id"}

initialState ==
    [ userId |-> "",
      preferences |-> [ language |-> "python",
                        styleGuide |-> "PEP8",
                        strictness |-> "moderate",
                        focusAreas |-> <<"readability", "performance", "security">> ],
      reviewHistory |-> <<>>,
      patterns |-> [ commonIssues |-> <<>>, ignoredRules |-> <<>>, customRules |-> <<>> ] ]

(***************************************************************************)
(* Inputs                                                                  *)
(***************************************************************************)
TextClean == <<"looks", "fine", ".">>
TextOne == <<"Issue:", "a", ".">>
TextTwo == <<"Issue:", "a", ".", "Issue:", "b", "error", ".">>

\* The inference outputs a run draws from.
ReviewTexts ==
    IF workload = "review" THEN {TextClean, TextOne, TextTwo} ELSE {TextOne}

\* What env.AI.run settles with: a response carrying text, or a rejection.
InferenceOutcomes ==
    {[ok |-> TRUE, response |-> t] : t \in ReviewTexts}
        \cup {[ok |-> FALSE, response |-> <<>>]}

Codes == {"def f(): pass"}

Languages ==
    IF workload = "review" THEN {None, Some(""), Some("go")} ELSE {None}

PartialPreferences ==
    IF workload = "prefs"
    THEN { <<>>,
           [strictness |-> "strict"],
           [language |-> "go", styleGuide |-> "gofmt"],
           [focusAreas |-> <<"security">>] }
    ELSE {[strictness |-> "strict"]}

\* comments: absent, the empty string, or a text (a token sequence), among
\* them the text of a phrase that reviews yield
Comments ==
    CASE workload = "feedback" ->
            {None, Some(<<>>), Some(<<"too", "strict">>), Some(<<"Issue:", "a">>)}
      [] workload = "long" -> {None, Some(<<>>), Some(<<"too", "strict">>)}
      [] OTHER -> {None, Some(<<"too", "strict">>)}

\* How many calls of each operation a run of each workload issues.
Budget ==
    CASE workload = "review" ->
            [reviews |-> MaxReviews, feedback |-> 1, prefs |-> 1,
             messages |-> 0, peer |-> 0]
      [] workload = "feedback" ->
            [reviews |-> 2, feedback |-> MaxFeedback, prefs |-> 1,
             messages |-> 0, peer |-> 0]
      [] workload = "long" ->
            [reviews |-> MaxHistory + ExtraReviews, feedback |-> 1, prefs |-> 1,
             messages |-> 0, peer |-> 0]
      [] workload = "prefs" ->
            [reviews |-> 1, feedback |-> 1, prefs |-> MaxPrefUpdates,
             messages |-> 0, peer |-> 0]
      [] workload = "messages" ->
            [reviews |-> 1, feedback |-> 1, prefs |-> 1,
             messages |-> MaxMessages, peer |-> 0]
      [] workload = "tenants" ->
            [reviews |-> 1, feedback |-> 1, prefs |-> 1,
             messages |-> 0, peer |-> MaxPeerOps]

(***************************************************************************)
(* Pure helpers                                                            *)
(***************************************************************************)
\* review.match(/Issue:([^.]+)/g): the end of the greedy run [^.]+ that
\* starts at index j (text[j] is known not to be ".").
RECURSIVE RunEnd(_, _)
RunEnd(text, j) ==
    IF j + 1 <= Len(text) /\ text[j + 1] # "."
    THEN RunEnd(text, j + 1)
    ELSE j

\* The matches found scanning from index i, left to right, non-overlapping.
RECURSIVE MatchFrom(_, _)
MatchFrom(text, i) ==
    IF i > Len(text) THEN <<>>
    ELSE IF text[i] = "Issue:" /\ i + 1 <= Len(text) /\ text[i + 1] # "."
         THEN LET e == RunEnd(text, i + 1)
              IN  <<SubSeq(text, i, e)>> \o MatchFrom(text, e + 1)
         ELSE MatchFrom(text, i + 1)

\* review.match(/Issue:([^.]+)/g) || []
issuePatterns(review) == MatchFrom(review, 1)

\* A token's number of matches of /issue|problem|error|warning|concern/gi.
KeywordHits(tok) ==
    IF tok \in {"Issue:", "issue", "problem", "error", "warning", "concern"}
    THEN 1 ELSE 0

RECURSIVE countIssues(_)
countIssues(review) ==
    IF review = <<>> THEN 0
    ELSE KeywordHits(Head(review)) + countIssues(Tail(review))

\* WHERE pattern_type = type
RECURSIVE WhereType(_, _)
WhereType(rows, type) ==
    IF rows = <<>> THEN <<>>
    ELSE IF Head(rows).pattern_type = type
         THEN <<Head(rows)>> \o WhereType(Tail(rows), type)
         ELSE WhereType(Tail(rows), type)

\* ORDER BY frequency DESC; rows of equal frequency keep insertion order.
RECURSIVE OrderByFrequencyDesc(_)
OrderByFrequencyDesc(rows) ==
    IF rows = <<>> THEN <<>>
    ELSE LET best == CHOOSE i \in 1..Len(rows) :
                        /\ \A j \in 1..Len(rows) : rows[j].frequency <= rows[i].frequency
                        /\ \A j \in 1..(i - 1) : rows[j].frequency < rows[i].frequency
             rest == [k \in 1..(Len(rows) - 1) |-> IF k < best THEN rows[k] ELSE rows[k + 1]]
         IN  <<rows[best]>> \o OrderByFrequencyDesc(rest)

\* SELECT ... FROM review_patterns WHERE pattern_type = type
\* ORDER BY frequency DESC LIMIT 5
SelectTopPatterns(rows, type) ==
    LET sorted == OrderByFrequencyDesc(WhereType(rows, type))
    IN  SubSeq(sorted, 1, Min(Len(sorted), TopK))

\* patterns.map(p => p.pattern)
PatternTexts(rows) == [i \in 1..Len(rows) |-> rows[i].pattern]

\* buildReviewPrompt: the template's slots.  The "Common issues to check"
\* clause is present only for a non-empty pattern list.
buildReviewPrompt(st, code, language, patterns) ==
    [ language |-> language,
      strictness |-> st.preferences.strictness,
      focusAreas |-> st.preferences.focusAreas,
      styleGuide |-> st.preferences.styleGuide,
      hasCommonIssues |-> Len(patterns) > 0,
      commonIssues |-> PatternTexts(patterns),
      code |-> code ]

(***************************************************************************)
(* SQL statements                                                          *)
(***************************************************************************)
\* INSERT INTO review_patterns (pattern_type, pattern) VALUES
\*   ('detected_issue', pattern)
\*   ON CONFLICT(pattern) DO UPDATE SET frequency = frequency + 1,
\*                                      last_seen = CURRENT_TIMESTAMP
\* SQLite accepts a conflict target only if it names the columns of a
\* PRIMARY KEY or UNIQUE constraint of the table; otherwise the statement
\* fails ("ON CONFLICT clause does not match any PRIMARY KEY or UNIQUE
\* constraint") and writes nothing.
UpsertPattern(rows, pattern, t) ==
    IF "pattern" \notin review_patterns_unique
    THEN [threw |-> TRUE, rows |-> rows]
    ELSE IF \E i \in 1..Len(rows) : rows[i].pattern = pattern
         THEN LET i == CHOOSE k \in 1..Len(rows) : rows[k].pattern = pattern
              IN  [threw |-> FALSE,
                   rows |-> [rows EXCEPT ![i].frequency = @ + 1, ![i].last_seen = t]]
         ELSE [threw |-> FALSE,
               rows |-> Append(rows, [ id |-> Len(rows) + 1,
                                       pattern_type |-> "detected_issue",
                                       pattern |-> pattern,
                                       frequency |-> 1,
                                       last_seen |-> t,
                                       user_feedback |-> "NULL" ])]

\* The feedback insert as an upsert on the comment text.
InsertPreferencePattern_Upsert(rows, comments, t) ==
    IF \E i \in 1..Len(rows) : rows[i].pattern = comments
    THEN LET i == CHOOSE k \in 1..Len(rows) : rows[k].pattern = comments
         IN  [rows EXCEPT ![i].frequency = @ + 1, ![i].last_seen = t]
    ELSE Append(rows, [ id |-> Len(rows) + 1,
                        pattern_type |-> "user_preference",
                        pattern |-> comments,
                        frequency |-> 1,
                        last_seen |-> t,
                        user_feedback |-> "negative" ])

\* INSERT INTO review_patterns (pattern_type, pattern, user_feedback)
\*   VALUES ('user_preference', comments, 'negative')
InsertPreferencePattern(rows, comments, t) ==
    Append(rows, [ id |-> Len(rows) + 1,
                   pattern_type |-> "user_preference",
                   pattern |-> comments,
                   frequency |-> 1,
                   last_seen |-> t,
                   user_feedback |-> "negative" ])

\* INSERT INTO code_snippets (code, language, review, issues_found, timestamp)
InsertSnippet(snips, code, language, review, t) ==
    Append(snips, [ id |-> Len(snips) + 1,
                    code |-> code,
                    language |-> language,
                    review |-> review,
                    issues_found |-> countIssues(review),
                    timestamp |-> t,
                    helpful |-> "NULL" ])

(***************************************************************************)
(* Operations, as functions of the instance's state                        *)
(***************************************************************************)
\* storeReview without the pop at capacity.
storeReview_NoPop(st, snips, code, review, language, t, uuid) ==
    [ state |-> [st EXCEPT !.reviewHistory =
                    <<[ id |-> uuid, code |-> code, review |-> review,
                        timestamp |-> t, accepted |-> FALSE ]>> \o @],
      code_snippets |-> InsertSnippet(snips, code, language, review, t) ]

\* A storeReview whose history lives in one array shared by every instance
\* instead of the instance's own state.
storeReview_SharedHistory(st, snips, code, review, language, t, uuid) ==
    LET unshifted == <<[ id |-> uuid, code |-> code, review |-> review,
                         timestamp |-> t, accepted |-> FALSE ]>> \o state.reviewHistory
        history == IF Len(unshifted) > MaxHistory
                   THEN SubSeq(unshifted, 1, Len(unshifted) - 1)
                   ELSE unshifted
    IN  [ state |-> [st EXCEPT !.reviewHistory = history],
          code_snippets |-> InsertSnippet(snips, code, language, review, t) ]

\* A storeReview that creates its record as accepted.
storeReview_Accepted(st, snips, code, review, language, t, uuid) ==
    LET unshifted == <<[ id |-> uuid, code |-> code, review |-> review,
                         timestamp |-> t, accepted |-> TRUE ]>> \o st.reviewHistory
        history == IF Len(unshifted) > MaxHistory
                   THEN SubSeq(unshifted, 1, Len(unshifted) - 1)
                   ELSE unshifted
    IN  [ state |-> [st EXCEPT !.reviewHistory = history],
          code_snippets |-> InsertSnippet(snips, code, language, review, t) ]

\* A storeReview that replaces the snapshot with one built from the initial
\* state instead of the current one.
storeReview_FromInitial(st, snips, code, review, language, t, uuid) ==
    LET unshifted == <<[ id |-> uuid, code |-> code, review |-> review,
                         timestamp |-> t, accepted |-> FALSE ]>> \o st.reviewHistory
        history == IF Len(unshifted) > MaxHistory
                   THEN SubSeq(unshifted, 1, Len(unshifted) - 1)
                   ELSE unshifted
    IN  [ state |-> [initialState EXCEPT !.reviewHistory = history],
          code_snippets |-> InsertSnippet(snips, code, language, review, t) ]

\* storeReview: the snippet insert, then unshift / pop / setState.
storeReview(st, snips, code, review, language, t, uuid) ==
    LET unshifted == <<[ id |-> uuid, code |-> code, review |-> review,
                         timestamp |-> t, accepted |-> FALSE ]>> \o st.reviewHistory
        history == IF Len(unshifted) > MaxHistory
                   THEN SubSeq(unshifted, 1, Len(unshifted) - 1)
                   ELSE unshifted
    IN  [ state |-> [st EXCEPT !.reviewHistory = history],
          code_snippets |-> InsertSnippet(snips, code, language, review, t) ]

\* The for-loop of learnFromReview: the statements run one after the other;
\* the first that fails ends the loop with the exception.
RECURSIVE LearnEach(_, _, _)
LearnEach(rows, patterns, t) ==
    IF patterns = <<>> THEN [threw |-> FALSE, rows |-> rows]
    ELSE LET r == UpsertPattern(rows, Head(patterns), t)
         IN  IF r.threw THEN r ELSE LearnEach(r.rows, Tail(patterns), t)

learnFromReview(rows, review, t) == LearnEach(rows, issuePatterns(review), t)

\* reviewCode up to the inference call: the language default, the pattern
\* query and the prompt; the call then waits for AI.run with them.
reviewCodeStart(st, rows, code, language) ==
    LET userLanguage == IF language # None /\ language[1] # ""
                        THEN language[1]
                        ELSE st.preferences.language
        recentPatterns == SelectTopPatterns(rows, "common_issue")
    IN  [ pc |-> "awaiting", code |-> code, userLanguage |-> userLanguage,
          prompt |-> buildReviewPrompt(st, code, userLanguage, recentPatterns) ]

\* The catch block of reviewCode.
ReviewFailure(t) ==
    [success |-> FALSE, error |-> "Failed to generate review", timestamp |-> t]

\* reviewCode with the snippet written whatever the inference outcome.
reviewCodeResume_StoreOnReject(st, rows, snips, call, outcome, t, uuid) ==
    LET review == outcome.response
        stored == storeReview(st, snips, call.code, review, call.userLanguage, t, uuid)
        learned == learnFromReview(rows, review, t)
    IN  [ state |-> stored.state,
          review_patterns |-> learned.rows,
          code_snippets |-> stored.code_snippets,
          value |-> IF ~outcome.ok \/ learned.threw
                    THEN ReviewFailure(t)
                    ELSE [ success |-> TRUE, review |-> review,
                           language |-> call.userLanguage, timestamp |-> t ] ]

\* reviewCode from the settling of AI.run to the return: the rest of the try
\* block (storeReview, learnFromReview, the success value), or the catch.
reviewCodeResume(st, rows, snips, call, outcome, t, uuid) ==
    IF ~outcome.ok
    THEN [ state |-> st, review_patterns |-> rows, code_snippets |-> snips,
           value |-> ReviewFailure(t) ]
    ELSE LET review == outcome.response
             stored == storeReview(st, snips, call.code, review, call.userLanguage, t, uuid)
             learned == learnFromReview(rows, review, t)
         IN  [ state |-> stored.state,
               review_patterns |-> learned.rows,
               code_snippets |-> stored.code_snippets,
               value |-> IF learned.threw
                         THEN ReviewFailure(t)
                         ELSE [ success |-> TRUE, review |-> review,
                                language |-> call.userLanguage, timestamp |-> t ] ]

\* A merge into the defaults instead of into the current preferences.
MergePreferences_IntoDefaults(current, partial) ==
    [f \in DOMAIN current \cup DOMAIN partial |->
        IF f \in DOMAIN partial THEN partial[f] ELSE initialState.preferences[f]]

\* { ...this.state.preferences, ...preferences }
MergePreferences(current, partial) ==
    [f \in DOMAIN current \cup DOMAIN partial |->
        IF f \in DOMAIN partial THEN partial[f] ELSE current[f]]

updatePreferences(st, partial) ==
    LET next == [st EXCEPT !.preferences = MergePreferences(st.preferences, partial)]
    IN  [ state |-> next,
          value |-> [success |-> TRUE, preferences |-> next.preferences] ]

\* this.state.reviewHistory.findIndex(r => r.id === reviewId); 0 stands for -1
FindIndex(history, reviewId) ==
    IF \E i \in 1..Len(history) : history[i].id = reviewId
    THEN CHOOSE i \in 1..Len(history) :
            /\ history[i].id = reviewId
            /\ \A j \in 1..(i - 1) : history[j].id # reviewId
    ELSE 0

\* `comments` as a condition: supplied and not the empty string
Truthy(comments) == comments # None /\ comments[1] # <<>>

\* provideFeedback with the pattern insert outside the `found` branch.
provideFeedback_InsertUnfound(st, rows, reviewId, helpful, comments, t) ==
    LET reviewIndex == FindIndex(st.reviewHistory, reviewId)
    IN  [ state |-> IF reviewIndex # 0
                    THEN [st EXCEPT !.reviewHistory[reviewIndex].accepted = helpful]
                    ELSE st,
          review_patterns |-> IF ~helpful /\ Truthy(comments)
                              THEN InsertPreferencePattern(rows, comments[1], t)
                              ELSE rows,
          value |-> [success |-> TRUE] ]

\* provideFeedback marking the newest record instead of the one found.
provideFeedback_MarkNewest(st, rows, reviewId, helpful, comments, t) ==
    LET reviewIndex == FindIndex(st.reviewHistory, reviewId)
    IN  IF reviewIndex # 0
        THEN [ state |-> [st EXCEPT !.reviewHistory[1].accepted = helpful],
               review_patterns |-> IF ~helpful /\ Truthy(comments)
                                   THEN InsertPreferencePattern(rows, comments[1], t)
                                   ELSE rows,
               value |-> [success |-> TRUE] ]
        ELSE [ state |-> st, review_patterns |-> rows, value |-> [success |-> TRUE] ]

provideFeedback(st, rows, reviewId, helpful, comments, t) ==
    LET reviewIndex == FindIndex(st.reviewHistory, reviewId)
    IN  IF reviewIndex # 0
        THEN [ state |-> [st EXCEPT !.reviewHistory[reviewIndex].accepted = helpful],
               review_patterns |-> IF ~helpful /\ Truthy(comments)
                                   THEN InsertPreferencePattern(rows, comments[1], t)
                                   ELSE rows,
               value |-> [success |-> TRUE] ]
        ELSE [ state |-> st, review_patterns |-> rows, value |-> [success |-> TRUE] ]

\* The count taken from the in-memory window instead of the relation.
getStats_WindowCount(st, rows, snips) ==
    [ totalReviews |-> Len(st.reviewHistory),
      commonIssues |-> <<>>,
      preferences |-> st.preferences,
      recentReviews |-> Len(st.reviewHistory) ]

\* SELECT COUNT(*) as count FROM code_snippets; (...)?.count || 0
CountSnippets(snips) == Len(snips)

getStats(st, rows, snips) ==
    [ totalReviews |-> CountSnippets(snips),
      commonIssues |-> LET top == SelectTopPatterns(rows, "detected_issue")
                       IN  [i \in 1..Len(top) |->
                               [pattern |-> top[i].pattern, frequency |-> top[i].frequency]],
      preferences |-> st.preferences,
      recentReviews |-> Len(st.reviewHistory) ]

(***************************************************************************)
(* Message protocol (onConnect, onMessage, onClose)                        *)
(***************************************************************************)
\* No reviewCode call in flight.
Idle == [pc |-> "idle", code |-> "", userLanguage |-> "", prompt |-> <<>>]

\* An inbound message is a string: one that JSON.parse rejects, or the
\* encoding of a record.
Malformed == [wellFormed |-> FALSE, data |-> <<>>]
Encoded(data) == [wellFormed |-> TRUE, data |-> data]

\* JSON.parse(message)
JSONParse(message) ==
    IF message.wellFormed
    THEN [threw |-> FALSE, data |-> message.data]
    ELSE [threw |-> TRUE, data |-> <<>>]

\* JSON.stringify({ type: tag, ...result }): the fields of result, and the
\* tag unless result has a field `type` of its own.
Tagged(tag, result) ==
    [f \in {"type"} \cup DOMAIN result |->
        IF f \in DOMAIN result THEN result[f] ELSE tag]

\* The tags written in connection.send for the replies of the switch cases,
\* with the reply tags of two cases exchanged.
ResponseTag_Exchanged(type) ==
    CASE type = "review" -> "review-result"
      [] type = "update-preferences" -> "preferences-updated"
      [] type = "feedback" -> "stats"
      [] type = "get-stats" -> "feedback-received"

\* The tags written in connection.send for the replies of the switch cases.
ResponseTag(type) ==
    CASE type = "review" -> "review-result"
      [] type = "update-preferences" -> "preferences-updated"
      [] type = "feedback" -> "feedback-received"
      [] type = "get-stats" -> "stats"

\* A switch without its default branch.
UnknownCommandReply_None == <<>>

\* The default branch of the switch.
UnknownCommandReply == << [type |-> "error", message |-> "Unknown command"] >>

\* The catch block of onMessage.
ParseFailureReply ==
    << [ type |-> "error", message |-> "Failed to process message",
         error |-> "Unexpected token" ] >>

\* What one step of onMessage does: the try block with its switch, and the
\* catch.  op is the operation invoked ("none" if none), send the messages
\* handed to connection.send in this step; a review suspends on AI.run
\* inside reviewCode and sends when it resumes.
onMessage(st, rows, snips, message, t) ==
    LET parsed == JSONParse(message)
        data == parsed.data
        type == IF ~parsed.threw /\ "type" \in DOMAIN data THEN data.type ELSE "undefined"
        nothing == [ state |-> st, review_patterns |-> rows, op |-> "none",
                     args |-> <<>>, value |-> <<>>, suspend |-> FALSE,
                     call |-> Idle, send |-> <<>> ]
    IN  IF parsed.threw
        THEN [nothing EXCEPT !.send = ParseFailureReply]
        ELSE CASE type = "review" ->
                    [nothing EXCEPT
                        !.op = "reviewCode",
                        !.args = [code |-> data.code, language |-> data.language],
                        !.suspend = TRUE,
                        !.call = reviewCodeStart(st, rows, data.code, data.language)]
               [] type = "update-preferences" ->
                    LET r == updatePreferences(st, data.preferences)
                    IN  [nothing EXCEPT
                            !.state = r.state,
                            !.op = "updatePreferences",
                            !.args = data.preferences,
                            !.value = r.value,
                            !.send = <<Tagged(ResponseTag(type), r.value)>>]
               [] type = "feedback" ->
                    LET r == provideFeedback(st, rows, data.reviewId, data.helpful,
                                             data.comments, t)
                    IN  [nothing EXCEPT
                            !.state = r.state,
                            !.review_patterns = r.review_patterns,
                            !.op = "provideFeedback",
                            !.args = [ reviewId |-> data.reviewId,
                                       helpful |-> data.helpful,
                                       comments |-> data.comments ],
                            !.value = r.value,
                            !.send = <<Tagged(ResponseTag(type), r.value)>>]
               [] type = "get-stats" ->
                    LET stats == getStats(st, rows, snips)
                    IN  [nothing EXCEPT
                            !.op = "getStats",
                            !.value = stats,
                            !.send = <<Tagged(ResponseTag(type), stats)>>]
               [] OTHER ->
                    [nothing EXCEPT !.send = UnknownCommandReply]

\* An onConnect that sends nothing.
onConnect_Silent(st, rows, snips) == <<>>

\* onConnect: the message sent on a new connection.
onConnect(st, rows, snips) == <<Tagged("stats", getStats(st, rows, snips))>>

\* The messages a client sends.
InboundMessages ==
    { Malformed,
      Encoded([type |-> "ping"]),
      Encoded([type |-> "review", code |-> "def f(): pass", language |-> None]),
      Encoded([type |-> "update-preferences", preferences |-> [strictness |-> "strict"]]),
      Encoded([type |-> "get-stats"]) }
      \cup { Encoded([ type |-> "feedback", reviewId |-> id, helpful |-> FALSE,
                       comments |-> Some(<<"too", "strict">>) ]) :
                id \in 0..(uuidSeq - 1) }

\* Outbox entries: re is the arrival number of the inbound message an entry
\* answers on its connection, 0 for the message sent by onConnect.
Entries(n, bodies) == [i \in 1..Len(bodies) |-> [re |-> n, body |-> bodies[i]]]

RECURSIVE SumReceived(_)
SumReceived(ks) ==
    IF ks = {} THEN 0
    ELSE LET k == CHOOSE x \in ks : TRUE
         IN  conns[k].received + SumReceived(ks \ {k})

(***************************************************************************)
(* The state machine                                                       *)
(***************************************************************************)
\* review ids a caller may quote: one never issued (0) and issued ones
FeedbackIds ==
    IF workload = "long" THEN {0, 1, uuidSeq - 1} ELSE 0..(uuidSeq - 1)

\* A connection not yet established.
NoConnection == [status |-> "new", received |-> 0, outbox |-> <<>>, inflight |-> {}]

\* A step that is not a connection-level event.
NoWire == [kind |-> "none", conn |-> "", n |-> 0, message |-> <<>>]

\* A freshly constructed instance of another identity: its own state, its own
\* relations, its own token source, no call in flight.
NewInstance ==
    [ state |-> initialState, review_patterns |-> <<>>, code_snippets |-> <<>>,
      call |-> Idle, uuidSeq |-> 1, inferenceTexts |-> 0, ops |-> 0 ]

InitWith(w) ==
    /\ workload = w
    /\ state = initialState
    /\ review_patterns = <<>>
    /\ code_snippets = <<>>
    /\ calls = [c \in Callers |-> Idle]
    /\ event = [ op |-> "onStart", phase |-> "return", caller |-> "",
                 args |-> <<>>, inference |-> <<>>, value |-> <<>> ]
    /\ now = 1
    /\ uuidSeq = 1
    /\ inferenceTexts = 0
    /\ used = [reviews |-> 0, feedback |-> 0, prefs |-> 0]
    /\ conns = [k \in Connections |-> NoConnection]
    /\ wire = NoWire
    /\ peer = NewInstance

Init == InitWith("review")

InitLong == InitWith("long")

\* reviewCode up to `await this.env.AI.run(...)`
ReviewCall(c, code, language) ==
    /\ calls[c].pc = "idle"
    /\ used.reviews < Budget.reviews
    /\ calls' = [calls EXCEPT ![c] =
                    reviewCodeStart(state, review_patterns, code, language)]
    /\ event' = [ op |-> "reviewCode", phase |-> "call", caller |-> c,
                  args |-> [code |-> code, language |-> language],
                  inference |-> <<>>, value |-> <<>> ]
    /\ used' = [used EXCEPT !.reviews = @ + 1]
    /\ UNCHANGED <<state, review_patterns, code_snippets, now, uuidSeq,
                   inferenceTexts, workload, conns, peer>>
    /\ wire' = NoWire

\* reviewCode from the settling of AI.run to its return
ReviewResume(c, outcome) ==
    /\ calls[c].pc = "awaiting"
    /\ LET r == reviewCodeResume(state, review_patterns, code_snippets,
                                 calls[c], outcome, now, uuidSeq)
       IN  /\ state' = r.state
           /\ review_patterns' = r.review_patterns
           /\ code_snippets' = r.code_snippets
           /\ event' = [ op |-> "reviewCode", phase |-> "return", caller |-> c,
                         args |-> [code |-> calls[c].code,
                                   language |-> calls[c].userLanguage,
                                   prompt |-> calls[c].prompt],
                         inference |-> outcome, value |-> r.value ]
    /\ calls' = [calls EXCEPT ![c] = Idle]
    /\ now' = IF outcome.ok THEN now + 1 ELSE now
    /\ uuidSeq' = IF outcome.ok THEN uuidSeq + 1 ELSE uuidSeq
    /\ inferenceTexts' = IF outcome.ok THEN inferenceTexts + 1 ELSE inferenceTexts
    /\ UNCHANGED <<used, workload, conns, peer>>
    /\ wire' = NoWire

UpdatePreferences(partial) ==
    /\ used.prefs < Budget.prefs
    /\ LET r == updatePreferences(state, partial)
       IN  /\ state' = r.state
           /\ event' = [ op |-> "updatePreferences", phase |-> "return",
                         caller |-> "", args |-> partial,
                         inference |-> <<>>, value |-> r.value ]
    /\ used' = [used EXCEPT !.prefs = @ + 1]
    /\ UNCHANGED <<review_patterns, code_snippets, calls, now, uuidSeq,
                   inferenceTexts, workload, conns, peer>>
    /\ wire' = NoWire

ProvideFeedback(reviewId, helpful, comments) ==
    /\ used.feedback < Budget.feedback
    /\ LET r == provideFeedback(state, review_patterns, reviewId, helpful, comments, now)
       IN  /\ state' = r.state
           /\ review_patterns' = r.review_patterns
           /\ event' = [ op |-> "provideFeedback", phase |-> "return", caller |-> "",
                         args |-> [ reviewId |-> reviewId, helpful |-> helpful,
                                    comments |-> comments ],
                         inference |-> <<>>, value |-> r.value ]
    /\ used' = [used EXCEPT !.feedback = @ + 1]
    /\ UNCHANGED <<code_snippets, calls, now, uuidSeq, inferenceTexts, workload, conns, peer>>
    /\ wire' = NoWire

GetStats ==
    /\ event' = [ op |-> "getStats", phase |-> "return", caller |-> "",
                  args |-> <<>>, inference |-> <<>>,
                  value |-> getStats(state, review_patterns, code_snippets) ]
    /\ UNCHANGED <<state, review_patterns, code_snippets, calls, now, uuidSeq,
                   inferenceTexts, used, workload, conns, peer>>
    /\ wire' = NoWire

Next ==
    \/ \E c \in Callers, code \in Codes, language \in Languages :
          ReviewCall(c, code, language)
    \/ \E c \in Callers, outcome \in InferenceOutcomes : ReviewResume(c, outcome)
    \/ \E partial \in PartialPreferences : UpdatePreferences(partial)
    \/ \E reviewId \in FeedbackIds, helpful \in BOOLEAN, comments \in Comments :
          ProvideFeedback(reviewId, helpful, comments)
    \/ GetStats

Spec == Init /\ [][Next]_vars

\* onConnect: the connection is established and the statistics are sent.
OnConnect(k) ==
    /\ conns[k].status = "new"
    /\ Budget.messages > 0
    /\ conns' = [conns EXCEPT ![k].status = "open",
                              ![k].outbox = @ \o Entries(0, onConnect(state, review_patterns,
                                                                      code_snippets))]
    /\ event' = [ op |-> "getStats", phase |-> "return", caller |-> k,
                  args |-> <<>>, inference |-> <<>>,
                  value |-> getStats(state, review_patterns, code_snippets) ]
    /\ wire' = [kind |-> "connect", conn |-> k, n |-> 0, message |-> <<>>]
    /\ UNCHANGED <<state, review_patterns, code_snippets, calls, now, uuidSeq,
                   inferenceTexts, used, workload, peer>>

\* onMessage up to its return, or up to `await this.env.AI.run(...)` inside
\* reviewCode for a review message.
OnMessage(k, message) ==
    /\ conns[k].status = "open"
    /\ SumReceived(Connections) < Budget.messages
    /\ LET n == conns[k].received + 1
           r == onMessage(state, review_patterns, code_snippets, message, now)
       IN  /\ state' = r.state
           /\ review_patterns' = r.review_patterns
           /\ conns' = [conns EXCEPT
                           ![k].received = n,
                           ![k].outbox = @ \o Entries(n, r.send),
                           ![k].inflight = IF r.suspend
                                           THEN @ \cup {[n |-> n, call |-> r.call]}
                                           ELSE @]
           /\ event' = [ op |-> r.op,
                         phase |-> IF r.suspend THEN "call" ELSE "return",
                         caller |-> k, args |-> r.args,
                         inference |-> <<>>, value |-> r.value ]
           /\ wire' = [kind |-> "message", conn |-> k, n |-> n, message |-> message]
    /\ UNCHANGED <<code_snippets, calls, now, uuidSeq, inferenceTexts, used,
                   workload, peer>>

\* A review message's handler from the settling of AI.run: the rest of
\* reviewCode, then connection.send of the review-result.
OnMessageResume(k, h, outcome) ==
    /\ h \in conns[k].inflight
    /\ LET r == reviewCodeResume(state, review_patterns, code_snippets,
                                 h.call, outcome, now, uuidSeq)
       IN  /\ state' = r.state
           /\ review_patterns' = r.review_patterns
           /\ code_snippets' = r.code_snippets
           /\ conns' = [conns EXCEPT
                           ![k].outbox = @ \o Entries(h.n, <<Tagged(ResponseTag("review"), r.value)>>),
                           ![k].inflight = @ \ {h}]
           /\ event' = [ op |-> "reviewCode", phase |-> "return", caller |-> k,
                         args |-> [code |-> h.call.code,
                                   language |-> h.call.userLanguage,
                                   prompt |-> h.call.prompt],
                         inference |-> outcome, value |-> r.value ]
    /\ wire' = [kind |-> "resume", conn |-> k, n |-> h.n, message |-> <<>>]
    /\ now' = IF outcome.ok THEN now + 1 ELSE now
    /\ uuidSeq' = IF outcome.ok THEN uuidSeq + 1 ELSE uuidSeq
    /\ inferenceTexts' = IF outcome.ok THEN inferenceTexts + 1 ELSE inferenceTexts
    /\ UNCHANGED <<calls, used, workload, peer>>

\* onClose: a log line.  A connection is closed here only once its handlers
\* have returned: what connection.send does on a closed socket is the
\* transport's business.
OnClose(k) ==
    /\ conns[k].status = "open"
    /\ conns[k].inflight = {}
    /\ conns' = [conns EXCEPT ![k].status = "closed"]
    /\ event' = [ op |-> "onClose", phase |-> "return", caller |-> k,
                  args |-> <<>>, inference |-> <<>>, value |-> <<>> ]
    /\ wire' = [kind |-> "close", conn |-> k, n |-> 0, message |-> <<>>]
    /\ UNCHANGED <<state, review_patterns, code_snippets, calls, now, uuidSeq,
                   inferenceTexts, used, workload, peer>>

\* The message protocol: every operation is reached through onMessage.
NextMessages ==
    \/ \E k \in Connections : OnConnect(k)
    \/ \E k \in Connections, message \in InboundMessages : OnMessage(k, message)
    \/ \E k \in Connections, outcome \in InferenceOutcomes :
          \E h \in conns[k].inflight : OnMessageResume(k, h, outcome)
    \/ \E k \in Connections : OnClose(k)

InitMessages == InitWith("messages")

SpecMessages == InitMessages /\ [][NextMessages]_vars

(***************************************************************************)
(* A second identity: another instance of the class, with its own state    *)
(* and its own relations, running the same operations                      *)
(***************************************************************************)
\* What the second identity submits.
PeerCode == "def g(): pass"
PeerPreferences == [language |-> "go"]

PeerEvent(op, phase, args, inference, value) ==
    /\ event' = [ op |-> op, phase |-> phase, caller |-> "peer", args |-> args,
                  inference |-> inference, value |-> value ]
    /\ wire' = NoWire
    /\ UNCHANGED <<state, review_patterns, code_snippets, calls, now, uuidSeq,
                   inferenceTexts, used, workload, conns>>

PeerReviewCall ==
    /\ peer.call.pc = "idle"
    /\ peer.ops < Budget.peer
    /\ peer' = [peer EXCEPT
                   !.call = reviewCodeStart(peer.state, peer.review_patterns,
                                            PeerCode, None),
                   !.ops = @ + 1]
    /\ PeerEvent("reviewCode", "call", [code |-> PeerCode, language |-> None],
                 <<>>, <<>>)

PeerReviewResume(outcome) ==
    /\ peer.call.pc = "awaiting"
    /\ LET r == reviewCodeResume(peer.state, peer.review_patterns, peer.code_snippets,
                                 peer.call, outcome, now, peer.uuidSeq)
       IN  /\ peer' = [peer EXCEPT
                          !.state = r.state,
                          !.review_patterns = r.review_patterns,
                          !.code_snippets = r.code_snippets,
                          !.call = Idle,
                          !.uuidSeq = IF outcome.ok THEN @ + 1 ELSE @,
                          !.inferenceTexts = IF outcome.ok THEN @ + 1 ELSE @]
           /\ PeerEvent("reviewCode", "return",
                        [code |-> peer.call.code, language |-> peer.call.userLanguage,
                         prompt |-> peer.call.prompt],
                        outcome, r.value)

PeerUpdatePreferences ==
    /\ peer.ops < Budget.peer
    /\ LET r == updatePreferences(peer.state, PeerPreferences)
       IN  /\ peer' = [peer EXCEPT !.state = r.state, !.ops = @ + 1]
           /\ PeerEvent("updatePreferences", "return", PeerPreferences, <<>>, r.value)

PeerProvideFeedback(reviewId, helpful, comments) ==
    /\ peer.ops < Budget.peer
    /\ LET r == provideFeedback(peer.state, peer.review_patterns, reviewId, helpful,
                                comments, now)
       IN  /\ peer' = [peer EXCEPT !.state = r.state,
                                   !.review_patterns = r.review_patterns,
                                   !.ops = @ + 1]
           /\ PeerEvent("provideFeedback", "return",
                        [reviewId |-> reviewId, helpful |-> helpful,
                         comments |-> comments],
                        <<>>, r.value)

PeerGetStats ==
    /\ peer' = peer
    /\ PeerEvent("getStats", "return", <<>>, <<>>,
                 getStats(peer.state, peer.review_patterns, peer.code_snippets))

\* Two identities, each call routed to the instance of its identity.
NextTenants ==
    \/ Next
    \/ PeerReviewCall
    \/ \E outcome \in InferenceOutcomes : PeerReviewResume(outcome)
    \/ PeerUpdatePreferences
    \/ \E reviewId \in 0..(peer.uuidSeq - 1), helpful \in BOOLEAN, comments \in Comments :
          PeerProvideFeedback(reviewId, helpful, comments)
    \/ PeerGetStats

InitTenants == InitWith("tenants")

SpecTenants == InitTenants /\ [][NextTenants]_vars

SpecLong == InitLong /\ [][Next]_vars

InitFeedback == InitWith("feedback")

SpecFeedback == InitFeedback /\ [][Next]_vars

InitPrefs == InitWith("prefs")

SpecPrefs == InitPrefs /\ [][Next]_vars

(***************************************************************************)
(* Properties                                                              *)
(***************************************************************************)
ReviewIds(history) == {history[i].id : i \in 1..Len(history)}

ReviewReturn(e) == e.op = "reviewCode" /\ e.phase = "return"

\* C1: after N reviewCode calls whose inference returned text, reviewHistory
\* holds min(N, 10) records: the N-th issued first, then the (N-1)-th, ...,
\* newest first, so the oldest N-10 are gone.
C1_HistoryWindow ==
    LET h == state.reviewHistory
    IN  /\ Len(h) = Min(inferenceTexts, MaxHistory)
        /\ \A i \in 1..Len(h) : h[i].id = inferenceTexts - i + 1
        /\ \A i \in 1..(Len(h) - 1) : h[i].timestamp >= h[i + 1].timestamp

\* More than 10 reviews were stored and the first is no longer in the window.
C1_Witness ==
    /\ inferenceTexts > MaxHistory
    /\ Len(state.reviewHistory) = MaxHistory
    /\ 1 \notin ReviewIds(state.reviewHistory)
    /\ state.reviewHistory[1].id = inferenceTexts

Range(seq) == {seq[i] : i \in 1..Len(seq)}

\* How often x occurs in seq.
RECURSIVE Occurrences(_, _)
Occurrences(seq, x) ==
    IF seq = <<>> THEN 0
    ELSE (IF Head(seq) = x THEN 1 ELSE 0) + Occurrences(Tail(seq), x)

\* How often phrase p was extracted from the review texts returned so far
\* (every returned text is in code_snippets: storeReview precedes
\* learnFromReview).
RECURSIVE TimesExtracted(_, _)
TimesExtracted(snips, p) ==
    IF snips = <<>> THEN 0
    ELSE Occurrences(issuePatterns(Head(snips).review), p)
            + TimesExtracted(Tail(snips), p)

ExtractedPhrases(snips) ==
    UNION {Range(issuePatterns(snips[i].review)) : i \in 1..Len(snips)}

DetectedRows(rows, p) ==
    {i \in 1..Len(rows) :
        rows[i].pattern_type = "detected_issue" /\ rows[i].pattern = p}

\* C2: a phrase learned twice is held by exactly one detected_issue record,
\* with frequency 2.
C2_LearnedTwiceOneRecord ==
    \A p \in ExtractedPhrases(code_snippets) :
        TimesExtracted(code_snippets, p) = 2 =>
            /\ Cardinality(DetectedRows(review_patterns, p)) = 1
            /\ \A i \in DetectedRows(review_patterns, p) :
                    review_patterns[i].frequency = 2

\* C3: a review whose text holds k distinct new phrases returns success with
\* the text, appends k detected_issue records of frequency 1, one snippet and
\* one history entry holding the text.
C3_ReviewLearnsNewPhrases ==
    [][ ( /\ ReviewReturn(event')
          /\ event'.inference.ok
          /\ \A p \in Range(issuePatterns(event'.inference.response)) :
                DetectedRows(review_patterns, p) = {} )
        => LET text == event'.inference.response
               phrases == Range(issuePatterns(text))
               n == Len(review_patterns)
           IN  /\ event'.value.success
               /\ event'.value.review = text
               /\ Len(review_patterns') = n + Cardinality(phrases)
               /\ SubSeq(review_patterns', 1, n) = review_patterns
               /\ \A p \in phrases :
                     /\ Cardinality(DetectedRows(review_patterns', p)) = 1
                     /\ \A i \in DetectedRows(review_patterns', p) :
                           review_patterns'[i].frequency = 1
               /\ Len(code_snippets') = Len(code_snippets) + 1
               /\ Len(state'.reviewHistory) =
                     Min(Len(state.reviewHistory) + 1, MaxHistory)
               /\ state'.reviewHistory[1].review = text
               /\ state'.reviewHistory[1].id \notin ReviewIds(state.reviewHistory)
      ]_vars

\* C4: a rejected inference makes reviewCode return {success: false, error,
\* timestamp}, starts no further inference call and leaves the stores as they
\* were; the part of reviewCode before the inference call writes nothing.
C4_InferenceFailureWritesNothing ==
    [][ /\ ( ReviewReturn(event') /\ ~event'.inference.ok )
            => /\ DOMAIN event'.value = {"success", "error", "timestamp"}
               /\ event'.value.success = FALSE
               /\ event'.value.timestamp = now
               /\ UNCHANGED <<state, review_patterns, code_snippets>>
               /\ calls'[event'.caller].pc = "idle"
               /\ \A c \in Callers : calls'[c].pc = "awaiting" => calls[c] = calls'[c]
        /\ ( event'.op = "reviewCode" /\ event'.phase = "call" )
            => UNCHANGED <<state, review_patterns, code_snippets>>
      ]_vars

\* A failed inference returned to a caller after earlier reviews were stored.
C4_Witness ==
    /\ ReviewReturn(event)
    /\ ~event.inference.ok
    /\ event.value.success = FALSE
    /\ Len(code_snippets) > 0
    /\ Len(state.reviewHistory) > 0

\* C5: reviewCode writes (snippet, patterns, history) only when it returns
\* success: a return with success false changed nothing, and a return that
\* changed something has success true.
C5_WritesOnlyOnSuccess ==
    [][ ReviewReturn(event')
        => /\ event'.value.success = FALSE
                => UNCHANGED <<state, review_patterns, code_snippets>>
           /\ ( \/ code_snippets' # code_snippets
                \/ review_patterns' # review_patterns
                \/ state' # state )
                => event'.value.success = TRUE
      ]_vars

\* C6: the prompt of a reviewCode call lists the texts of the top 5
\* detected_issue records present when the call starts; a phrase extracted
\* from an earlier review is among them while at most 5 phrases are known.
C6_PromptListsLearnedPhrases ==
    \A c \in Callers :
        ( event.op = "reviewCode" /\ event.phase = "call" /\ event.caller = c )
        => /\ calls[c].prompt.commonIssues =
                PatternTexts(SelectTopPatterns(review_patterns, "detected_issue"))
           /\ Cardinality(ExtractedPhrases(code_snippets)) <= TopK
                => \A p \in ExtractedPhrases(code_snippets) :
                        p \in Range(calls[c].prompt.commonIssues)

\* C7: updatePreferences(partial) sets exactly the supplied fields, returns
\* the resulting preferences, and changes no other preference field, nor the
\* history, the cached patterns summary, PatternStore or the snippets.
C7_UpdatePreferencesFrame ==
    [][ event'.op = "updatePreferences"
        => LET partial == event'.args
           IN  /\ DOMAIN state'.preferences = DOMAIN state.preferences \cup DOMAIN partial
               /\ \A f \in DOMAIN partial : state'.preferences[f] = partial[f]
               /\ \A f \in DOMAIN state.preferences \ DOMAIN partial :
                     state'.preferences[f] = state.preferences[f]
               /\ event'.value = [success |-> TRUE, preferences |-> state'.preferences]
               /\ state'.reviewHistory = state.reviewHistory
               /\ state'.patterns = state.patterns
               /\ state'.userId = state.userId
               /\ UNCHANGED <<review_patterns, code_snippets>>
      ]_vars

\* Only strictness was supplied, after an earlier update had moved language
\* and styleGuide off their defaults and a review was in the history.
C7_Witness ==
    /\ event.op = "updatePreferences"
    /\ DOMAIN event.args = {"strictness"}
    /\ state.preferences.strictness = "strict"
    /\ state.preferences.language = "go"
    /\ state.preferences.styleGuide = "gofmt"
    /\ Len(state.reviewHistory) > 0

\* C8: provideFeedback for a reviewId that is not in reviewHistory returns
\* {success: true} and changes neither the state nor the stores, whatever
\* helpful and comments are.
C8_FeedbackUnknownIdNoOp ==
    [][ ( /\ event'.op = "provideFeedback"
          /\ event'.args.reviewId \notin ReviewIds(state.reviewHistory) )
        => /\ event'.value = [success |-> TRUE]
           /\ UNCHANGED <<state, review_patterns, code_snippets>>
      ]_vars

\* Negative feedback with comments for the first review, after it was
\* evicted from the window.
C8_Witness ==
    /\ event.op = "provideFeedback"
    /\ event.args.reviewId = 1
    /\ inferenceTexts > MaxHistory
    /\ 1 \notin ReviewIds(state.reviewHistory)
    /\ ~event.args.helpful
    /\ Truthy(event.args.comments)
    /\ event.value.success

\* C9: negative feedback with non-empty comments for a review in the history
\* appends one user_preference record (feedback "negative", frequency 1) and
\* touches no existing record, also when a record with the same text exists.
C9_NegativeFeedbackAlwaysInserts ==
    [][ ( /\ event'.op = "provideFeedback"
          /\ event'.args.reviewId \in ReviewIds(state.reviewHistory)
          /\ ~event'.args.helpful
          /\ Truthy(event'.args.comments) )
        => LET n == Len(review_patterns)
           IN  /\ Len(review_patterns') = n + 1
               /\ SubSeq(review_patterns', 1, n) = review_patterns
               /\ review_patterns'[n + 1].pattern_type = "user_preference"
               /\ review_patterns'[n + 1].pattern = event'.args.comments[1]
               /\ review_patterns'[n + 1].user_feedback = "negative"
               /\ review_patterns'[n + 1].frequency = 1
      ]_vars

\* Two user_preference records with the same text, each of frequency 1.
C9_Witness ==
    /\ event.op = "provideFeedback"
    /\ Len(review_patterns) >= 2
    /\ \E i, j \in 1..Len(review_patterns) :
          /\ i < j
          /\ review_patterns[i].pattern_type = "user_preference"
          /\ review_patterns[j].pattern_type = "user_preference"
          /\ review_patterns[i].pattern = review_patterns[j].pattern
          /\ review_patterns[i].frequency = 1
          /\ review_patterns[j].frequency = 1

\* C10: getStats returns the number of persisted snippets as totalReviews and
\* the length of reviewHistory as recentReviews, and changes nothing.
C10_StatsCounts ==
    [][ event'.op = "getStats"
        => /\ event'.value.totalReviews = Len(code_snippets)
           /\ event'.value.recentReviews = Len(state.reviewHistory)
           /\ event'.value.preferences = state.preferences
           /\ UNCHANGED <<state, review_patterns, code_snippets, calls>>
      ]_vars

\* Statistics taken when more snippets are persisted than the window holds.
C10_Witness ==
    /\ event.op = "getStats"
    /\ event.value.totalReviews = MaxHistory + 1
    /\ event.value.recentReviews = MaxHistory

(***************************************************************************)
(* Properties of the message protocol                                      *)
(***************************************************************************)
\* The type of an inbound message as the switch sees it.
MessageType(message) ==
    IF message.wellFormed /\ "type" \in DOMAIN message.data
    THEN message.data.type
    ELSE "undefined"

DispatchedTypes == {"review", "update-preferences", "feedback", "get-stats"}

\* The protocol's table: operation and reply tag per message type.
ExpectedOperation(type) ==
    CASE type = "review" -> "reviewCode"
      [] type = "update-preferences" -> "updatePreferences"
      [] type = "feedback" -> "provideFeedback"
      [] type = "get-stats" -> "getStats"

ExpectedTag(type) ==
    CASE type = "review" -> "review-result"
      [] type = "update-preferences" -> "preferences-updated"
      [] type = "feedback" -> "feedback-received"
      [] type = "get-stats" -> "stats"

\* The arrival numbers answered so far on connection k, in order of sending.
Answered(k) ==
    LET replies == SelectSeq(conns[k].outbox, LAMBDA e : e.re # 0)
    IN  [i \in 1..Len(replies) |-> replies[i].re]

InFlightNumbers(k) == {h.n : h \in conns[k].inflight}

OthersUnchanged(k) == \A j \in Connections \ {k} : conns'[j] = conns[j]

\* C11: a message of type review, update-preferences, feedback or get-stats
\* runs exactly the matching operation, once, with the message's arguments,
\* and its result is sent once, on the same connection, under the matching
\* tag (for a review: when reviewCode returns); no message is answered twice.
C11_DispatchAndReply ==
    /\ [][ LET k == wire'.conn
               type == MessageType(wire'.message)
               data == wire'.message.data
           IN  /\ ( wire'.kind = "message" /\ type \in DispatchedTypes \ {"review"} )
                   => /\ event'.op = ExpectedOperation(type)
                      /\ event'.phase = "return"
                      /\ event'.caller = k
                      /\ conns'[k].outbox =
                            Append(conns[k].outbox,
                                   [re |-> wire'.n,
                                    body |-> Tagged(ExpectedTag(type), event'.value)])
                      /\ conns'[k].inflight = conns[k].inflight
                      /\ OthersUnchanged(k)
                      /\ UNCHANGED code_snippets
                      /\ type = "update-preferences" =>
                            /\ [state |-> state', value |-> event'.value] =
                                  updatePreferences(state, data.preferences)
                            /\ UNCHANGED review_patterns
                      /\ type = "feedback" =>
                            [ state |-> state', review_patterns |-> review_patterns',
                              value |-> event'.value ] =
                               provideFeedback(state, review_patterns, data.reviewId,
                                               data.helpful, data.comments, now)
                      /\ type = "get-stats" =>
                            /\ event'.value = getStats(state, review_patterns, code_snippets)
                            /\ UNCHANGED <<state, review_patterns>>
               /\ ( wire'.kind = "message" /\ type = "review" )
                   => /\ event'.op = "reviewCode"
                      /\ event'.phase = "call"
                      /\ event'.caller = k
                      /\ conns'[k].outbox = conns[k].outbox
                      /\ wire'.n \notin InFlightNumbers(k)
                      /\ \E h \in conns'[k].inflight :
                            /\ h.n = wire'.n
                            /\ h.call.code = data.code
                            /\ conns'[k].inflight = conns[k].inflight \cup {h}
                      /\ OthersUnchanged(k)
                      /\ UNCHANGED <<state, review_patterns, code_snippets>>
               /\ wire'.kind = "resume"
                   => /\ ReviewReturn(event')
                      /\ event'.caller = k
                      /\ conns'[k].outbox =
                            Append(conns[k].outbox,
                                   [re |-> wire'.n,
                                    body |-> Tagged(ExpectedTag("review"), event'.value)])
                      /\ \E h \in conns[k].inflight :
                            /\ h.n = wire'.n
                            /\ conns'[k].inflight = conns[k].inflight \ {h}
                      /\ OthersUnchanged(k)
         ]_vars
    /\ [] \A k \in Connections :
            /\ \A i, j \in DOMAIN Answered(k) : Answered(k)[i] = Answered(k)[j] => i = j
            /\ Range(Answered(k)) \cap InFlightNumbers(k) = {}
            /\ Range(Answered(k)) \cup InFlightNumbers(k) = 1..conns[k].received

\* On one connection a review message was answered with a review-result and
\* a feedback message for that review with a feedback-received.
C11_Witness ==
    \E k \in Connections :
        /\ Len(conns[k].outbox) = 3
        /\ conns[k].outbox[2].re = 1
        /\ conns[k].outbox[2].body.type = "review-result"
        /\ conns[k].outbox[3].re = 2
        /\ conns[k].outbox[3].body.type = "feedback-received"
        /\ wire.kind = "message"
        /\ wire.message.data.reviewId \in ReviewIds(state.reviewHistory)
        /\ review_patterns # <<>>

\* C12: a message that does not parse, or whose type is not recognized, is
\* answered with one error message carrying a cause, changes neither the
\* state nor the stores nor any handler in flight, and leaves the connection
\* open; every message received after it is dispatched as usual (answered,
\* or awaiting its inference).
C12_BadMessageAnsweredWithError ==
    /\ [][ LET k == wire'.conn
           IN  ( wire'.kind = "message"
                 /\ MessageType(wire'.message) \notin DispatchedTypes )
               => /\ event'.op = "none"
                  /\ Len(conns'[k].outbox) = Len(conns[k].outbox) + 1
                  /\ SubSeq(conns'[k].outbox, 1, Len(conns[k].outbox)) = conns[k].outbox
                  /\ conns'[k].outbox[Len(conns'[k].outbox)].re = wire'.n
                  /\ conns'[k].outbox[Len(conns'[k].outbox)].body.type = "error"
                  /\ "message" \in DOMAIN conns'[k].outbox[Len(conns'[k].outbox)].body
                  /\ conns'[k].status = "open"
                  /\ conns'[k].inflight = conns[k].inflight
                  /\ conns'[k].received = conns[k].received + 1
                  /\ OthersUnchanged(k)
                  /\ UNCHANGED <<state, review_patterns, code_snippets, calls>>
         ]_vars
    /\ [] \A k \in Connections :
            \A i \in 1..Len(conns[k].outbox) :
                conns[k].outbox[i].body.type = "error"
                => \A n \in (conns[k].outbox[i].re + 1)..conns[k].received :
                        n \in Range(Answered(k)) \cup InFlightNumbers(k)

\* An error reply to the first message of a connection, then the reply to
\* its second message, a preference update that took effect.
C12_Witness ==
    \E k \in Connections :
        /\ Len(conns[k].outbox) = 3
        /\ conns[k].outbox[2] = [re |-> 1,
                                 body |-> [type |-> "error", message |-> "Unknown command"]]
        /\ conns[k].outbox[3].re = 2
        /\ conns[k].outbox[3].body.type = "preferences-updated"
        /\ state.preferences.strictness = "strict"

\* C13: establishing a connection sends one stats snapshot on it, the
\* current getStats result, before anything else is sent on it; closing a
\* connection changes neither the state nor the stores.
C13_StatsFirstCloseInert ==
    /\ [][ LET k == wire'.conn
           IN  /\ wire'.kind = "connect"
                  => /\ conns[k].outbox = <<>>
                     /\ conns'[k].outbox =
                            << [re |-> 0,
                                body |-> Tagged("stats",
                                                getStats(state, review_patterns,
                                                         code_snippets))] >>
                     /\ OthersUnchanged(k)
                     /\ UNCHANGED <<state, review_patterns, code_snippets>>
               /\ wire'.kind = "close"
                  => /\ conns'[k].outbox = conns[k].outbox
                     /\ OthersUnchanged(k)
                     /\ UNCHANGED <<state, review_patterns, code_snippets, calls>>
         ]_vars
    /\ [] \A k \in Connections :
            IF conns[k].status = "new"
            THEN conns[k].outbox = <<>>
            ELSE /\ Len(conns[k].outbox) >= 1
                 /\ conns[k].outbox[1].re = 0
                 /\ conns[k].outbox[1].body.type = "stats"
                 /\ \A i \in 2..Len(conns[k].outbox) : conns[k].outbox[i].re # 0

\* A connection opened after a review was stored got a snapshot counting
\* it, and was closed with the review still in the history.
C13_Witness ==
    \E k \in Connections :
        /\ conns[k].status = "closed"
        /\ conns[k].outbox[1].body.totalReviews = 1
        /\ Len(state.reviewHistory) = 1
        /\ Len(code_snippets) = 1

\* The operations that run from call to return without suspending.
AtomicOperations == {"updatePreferences", "provideFeedback", "getStats"}

\* C14: operations of the instance are strictly serialized: an operation
\* starts only when no reviewCode call is in flight, suspended on the
\* inference or not.
C14_OperationsSerialized ==
    [][ ( event'.phase = "call" \/ event'.op \in AtomicOperations )
        => \A c \in Callers : calls[c].pc = "idle" ]_vars

\* C15: on each connection the replies are sent in the order in which their
\* messages arrived, also when an earlier message is a review suspended on
\* the inference.
C15_RepliesInArrivalOrder ==
    \A k \in Connections :
        \A i, j \in 1..Len(Answered(k)) :
            i < j => Answered(k)[i] < Answered(k)[j]

\* C16: identities are isolated.  An operation of one identity leaves the
\* state, the patterns and the snippets of the other unchanged; what each
\* instance holds, and what its getStats returns, comes from its own
\* operations only: its own submissions, its own count of reviews, its own
\* preference updates.
C16_IdentitiesIsolated ==
    /\ [][ /\ event'.caller = "peer"
              => UNCHANGED <<state, review_patterns, code_snippets, calls>>
           /\ event'.caller # "peer" => peer' = peer
           /\ ( event'.caller = "peer" /\ event'.op = "getStats" )
              => /\ event'.value.totalReviews = peer.uuidSeq - 1
                 /\ event'.value.recentReviews = peer.uuidSeq - 1
                 /\ event'.value.preferences.strictness = "moderate"
           /\ ( event'.caller # "peer" /\ event'.op = "getStats" )
              => /\ event'.value.totalReviews = uuidSeq - 1
                 /\ event'.value.preferences.language = "python"
         ]_vars
    /\ [] /\ \A i \in 1..Len(peer.state.reviewHistory) :
                /\ peer.state.reviewHistory[i].code = PeerCode
                /\ peer.state.reviewHistory[i].id = peer.uuidSeq - i
          /\ \A i \in 1..Len(state.reviewHistory) :
                /\ state.reviewHistory[i].code \in Codes
                /\ state.reviewHistory[i].id = uuidSeq - i
          /\ Len(peer.state.reviewHistory) = peer.uuidSeq - 1
          /\ Len(state.reviewHistory) = uuidSeq - 1
          /\ \A i \in 1..Len(peer.code_snippets) : peer.code_snippets[i].code = PeerCode
          /\ \A i \in 1..Len(code_snippets) : code_snippets[i].code \in Codes
          /\ Len(peer.code_snippets) = peer.uuidSeq - 1
          /\ Len(code_snippets) = uuidSeq - 1
          /\ peer.state.preferences.strictness = "moderate"
          /\ state.preferences.language = "python"

\* Both identities hold a review with the same token; the first accepted
\* its own and made its reviews strict, the second changed its language.
C16_Witness ==
    /\ Len(state.reviewHistory) = 1
    /\ Len(peer.state.reviewHistory) = 1
    /\ state.reviewHistory[1].id = peer.state.reviewHistory[1].id
    /\ state.reviewHistory[1].accepted
    /\ ~peer.state.reviewHistory[1].accepted
    /\ state.preferences.strictness = "strict"
    /\ peer.state.preferences.language = "go"

\* C17: provideFeedback for an id in the history sets that record's accepted
\* to helpful and returns success; the record's other fields, every other
\* record, the order and length of the history and the rest of the state
\* stay as they were.  No other operation changes a record that stays in
\* the history, and a record leaves it only as the oldest of a full history
\* when a review is stored.
C17_OnlyFeedbackChangesRecords ==
    [][ LET old == state.reviewHistory
            new == state'.reviewHistory
        IN  /\ ( /\ event'.op = "provideFeedback"
                 /\ event'.args.reviewId \in ReviewIds(old) )
               => /\ event'.value = [success |-> TRUE]
                  /\ Len(new) = Len(old)
                  /\ \A i \in 1..Len(old) :
                        IF old[i].id = event'.args.reviewId
                        THEN /\ new[i].accepted = event'.args.helpful
                             /\ new[i].id = old[i].id
                             /\ new[i].code = old[i].code
                             /\ new[i].review = old[i].review
                             /\ new[i].timestamp = old[i].timestamp
                        ELSE new[i] = old[i]
                  /\ state'.preferences = state.preferences
                  /\ [state' EXCEPT !.reviewHistory = old] = state
                  /\ code_snippets' = code_snippets
            /\ event'.op # "provideFeedback"
               => \A i \in 1..Len(old), j \in 1..Len(new) :
                     new[j].id = old[i].id => new[j] = old[i]
            /\ ReviewIds(old) \ ReviewIds(new) # {}
               => /\ ReviewReturn(event')
                  /\ Len(old) = MaxHistory
                  /\ Len(new) = MaxHistory
                  /\ ReviewIds(old) \ ReviewIds(new) = {old[MaxHistory].id}
            /\ \A i, j \in 1..Len(old) :
                  ( i < j /\ {old[i].id, old[j].id} \subseteq ReviewIds(new) )
                  => \E a, b \in 1..Len(new) :
                        a < b /\ new[a].id = old[i].id /\ new[b].id = old[j].id
      ]_vars

\* Positive feedback for the older of two reviews: it alone is accepted.
C17_Witness ==
    /\ event.op = "provideFeedback"
    /\ event.args.reviewId = 1
    /\ event.args.helpful
    /\ Len(state.reviewHistory) = 2
    /\ state.reviewHistory[2].id = 1
    /\ state.reviewHistory[2].accepted
    /\ ~state.reviewHistory[1].accepted

\* A step in which reviewCode stored a review.
Stored == ReviewReturn(event') /\ Len(code_snippets') = Len(code_snippets) + 1

\* C18: accepted is tri-state: the record a review creates has accepted
\* unset, neither true nor false, and a step other than feedback for its id
\* leaves it so.
C18_AcceptedUnsetUntilFeedback ==
    [][ /\ Stored => state'.reviewHistory[1].accepted \notin BOOLEAN
        /\ \A i \in 1..Len(state.reviewHistory), j \in 1..Len(state'.reviewHistory) :
              ( /\ state'.reviewHistory[j].id = state.reviewHistory[i].id
                /\ ~( event'.op = "provideFeedback"
                      /\ event'.args.reviewId = state.reviewHistory[i].id ) )
              => state'.reviewHistory[j].accepted = state.reviewHistory[i].accepted
      ]_vars

\* C18 as amended: accepted is a boolean.  The record a review creates has
\* accepted = false; only feedback for its id changes it, to the value of
\* helpful.
C18_AcceptedFalseUntilFeedback ==
    /\ [][ /\ Stored => state'.reviewHistory[1].accepted = FALSE
           /\ \A i \in 1..Len(state.reviewHistory), j \in 1..Len(state'.reviewHistory) :
                 state'.reviewHistory[j].id = state.reviewHistory[i].id
                 => state'.reviewHistory[j].accepted =
                        IF /\ event'.op = "provideFeedback"
                           /\ event'.args.reviewId = state.reviewHistory[i].id
                        THEN event'.args.helpful
                        ELSE state.reviewHistory[i].accepted
         ]_vars
    /\ [] \A i \in 1..Len(state.reviewHistory) :
            state.reviewHistory[i].accepted \in BOOLEAN

\* Two records with accepted = false: the older after negative feedback,
\* the newer without any feedback.
C18_Witness ==
    /\ event.op = "provideFeedback"
    /\ event.args.reviewId = 1
    /\ ~event.args.helpful
    /\ Len(state.reviewHistory) = 2
    /\ state.reviewHistory[2].id = 1
    /\ state.reviewHistory[1].accepted = FALSE
    /\ state.reviewHistory[2].accepted = FALSE

PreferenceRows(rows, p) ==
    {i \in 1..Len(rows) :
        rows[i].pattern_type = "user_preference" /\ rows[i].pattern = p}

\* C19: learning is keyed by the phrase within type detected_issue.  A
\* phrase learned for the first time while a user_preference record holds
\* the same text gets a new detected_issue record of frequency 1, and that
\* user_preference record stays as it was; a detected_issue record never
\* keeps negative feedback with the same text from adding its record.
C19_LearningKeyedWithinType ==
    [][ /\ ( ReviewReturn(event') /\ event'.inference.ok )
           => \A p \in Range(issuePatterns(event'.inference.response)) :
                 ( /\ DetectedRows(review_patterns, p) = {}
                   /\ PreferenceRows(review_patterns, p) # {} )
                 => /\ Cardinality(DetectedRows(review_patterns', p)) = 1
                    /\ \A i \in DetectedRows(review_patterns', p) :
                          review_patterns'[i].frequency = 1
                    /\ \A i \in PreferenceRows(review_patterns, p) :
                          review_patterns'[i] = review_patterns[i]
        /\ ( /\ event'.op = "provideFeedback"
             /\ event'.args.reviewId \in ReviewIds(state.reviewHistory)
             /\ ~event'.args.helpful
             /\ Truthy(event'.args.comments)
             /\ DetectedRows(review_patterns, event'.args.comments[1]) # {} )
           => PreferenceRows(review_patterns', event'.args.comments[1])
                 = PreferenceRows(review_patterns, event'.args.comments[1])
                      \cup {Len(review_patterns) + 1}
      ]_vars

\* C20: replacing the snapshot loses no committed update.  When a reviewCode
\* returns success, whatever ran between its call and its return is still
\* there: the history is the new record followed by the records held just
\* before the return, accepted values included, and the preferences are the
\* ones in effect just before the return.
C20_NoLostUpdate ==
    [][ ( ReviewReturn(event') /\ event'.value.success )
        => LET old == state.reviewHistory
               new == state'.reviewHistory
           IN  /\ state'.preferences = state.preferences
               /\ Len(new) = Min(Len(old) + 1, MaxHistory)
               /\ new[1].review = event'.inference.response
               /\ new[1].id \notin ReviewIds(old)
               /\ SubSeq(new, 2, Len(new)) = SubSeq(old, 1, Len(new) - 1)
      ]_vars

\* A review returned success whose prompt was built under moderate
\* strictness: while it awaited the inference another review was stored
\* and accepted, and the strictness was changed; all of it is in the state.
C20_Witness ==
    /\ ReviewReturn(event)
    /\ event.value.success
    /\ event.args.prompt.strictness = "moderate"
    /\ state.preferences.strictness = "strict"
    /\ Len(state.reviewHistory) = 2
    /\ state.reviewHistory[1].timestamp > state.reviewHistory[2].timestamp
    /\ state.reviewHistory[2].accepted

====
